---- MODULE Spec2Model ----
(***************************************************************************)
(* Model of the Notion MCP server: the Express status endpoint, the tool   *)
(* catalog (TOOL_DEFINITIONS), the dispatch table (toolHandlers) and the   *)
(* two MCP request handlers (list tools, call tool), together with the     *)
(* Notion store they call.  Each tool invocation is one asynchronous task: *)
(* it starts (CallTool), may suspend on one store call, and resumes when   *)
(* the store answers (StoreRespond).                                       *)
(***************************************************************************)
EXTENDS Integers, Sequences, FiniteSets, TLC

\* ------------------------------------------------------------ bounds
\* Number of tool invocations a behaviour holds (each may be in flight).
MaxCalls == 2
\* Number of edits the store's page "1" undergoes.
MaxRev == 1
\* Number of objects the store holds.
CorpusSize == 14

\* ------------------------------------------------- program constants
\* page_size of the search request.
PageSize == 10
\* Port used when the environment sets none.
DefaultPort == 3000

\* JavaScript's undefined.
undefined == "<undefined>"

Min(a, b) == IF a <= b THEN a ELSE b

\* ------------------------------------------------------------- inputs
\* Tool names a call-tool request may carry: the two registered tools, a
\* name found nowhere, and names of properties every object inherits.
RegisteredNames == {"search_pages", "read_page"}

UnregisteredNames == {"nonexistent_tool", "toString", "constructor", "hasOwnProperty"}

ToolNames == RegisteredNames \cup UnregisteredNames

\* request.params.arguments: absent, or an object with optional fields.
NoArgs == [defined |-> FALSE, query |-> undefined, pageId |-> undefined]

ArgsObject(q, p) == [defined |-> TRUE, query |-> q, pageId |-> p]

EmptyArgs == ArgsObject(undefined, undefined)

\* The call-tool requests of the tool model: <<name, arguments>>.
Requests ==
    (UnregisteredNames \X {NoArgs, EmptyArgs, ArgsObject("roadmap", undefined)})
    \cup ({"search_pages"} \X {NoArgs, EmptyArgs, ArgsObject("roadmap", undefined)})
    \cup ({"read_page"} \X {NoArgs, EmptyArgs, ArgsObject(undefined, "1"),
                             ArgsObject(undefined, "missing")})

\* The call-tool requests of the front-end model.
FrontRequests ==
    {<<"nonexistent_tool", EmptyArgs>>, <<"toString", EmptyArgs>>,
     <<"search_pages", ArgsObject("roadmap", undefined)>>,
     <<"read_page", ArgsObject(undefined, "1")>>}

\* Values of process.env.PORT.
EnvPorts == {undefined, "", "8080"}

Calls == 1..MaxCalls

VARIABLES
    build,             \* the entry file that runs
    port,              \* PORT, once the module has read the environment
    listening,         \* the HTTP listener is started
    http,              \* responses sent to GET /api/status
    TOOL_DEFINITIONS,  \* the tool catalog
    listed,            \* results returned to list-tools requests
    pc,                \* per invocation: "idle", "awaiting", "done"
    request,           \* per invocation: request.params
    storeCalls,        \* per invocation: the store requests it issued
    storeAnswers,      \* per invocation: what the store answered
    errorLog,          \* per invocation: console.error entries
    outcome,           \* per invocation: what the handler returned or threw
    storeMode,         \* the store: "up", "down", "unauthorized"
    rev                \* the store: revision of page "1"

vars ==
    <<build, port, listening, http, TOOL_DEFINITIONS, listed, pc, request,
      storeCalls, storeAnswers, errorLog, outcome, storeMode, rev>>

serverVars == <<pc, request, storeCalls, storeAnswers, errorLog, outcome>>
storeVars == <<storeMode, rev>>
httpVars == <<port, listening, http>>

\* ------------------------------------------------------------ errors
ErrorOf(class, code, detail) == [class |-> class, code |-> code, detail |-> detail]

UnknownToolError(name) == ErrorOf("Error", "Unknown tool: ", name)
DestructureError == ErrorOf("TypeError", "Cannot destructure", undefined)
ReferenceError == ErrorOf("ReferenceError", "toolHandlers is not defined", undefined)
NotCallableThis == ErrorOf("TypeError", "Cannot convert undefined or null to object", undefined)
NetworkFailure == ErrorOf("RequestError", "network", undefined)
Unauthorized == ErrorOf("APIResponseError", "unauthorized", undefined)
NotFound(id) == ErrorOf("APIResponseError", "object_not_found", id)
ValidationError == ErrorOf("APIResponseError", "validation_error", undefined)

\* ------------------------------------------------------------- store
\* The Notion workspace: objects 1..CorpusSize in the store's relevance
\* order; every fifth one is a database, the others are pages.  Page "1"
\* is the one whose content is edited (rev).
ObjectType(k) == IF k % 5 = 0 THEN "database" ELSE "page"

Doc(k, r) ==
    [object |-> ObjectType(k), id |-> ToString(k), rev |-> IF k = 1 THEN r ELSE 0]

\* An absent query matches every object.
Matches(query, k) ==
    \/ query = undefined
    \/ query = ""
    \/ query = "roadmap" /\ k # 2

PageFilter == [property |-> "object", value |-> "page"]
NoFilter == [property |-> undefined, value |-> undefined]

Passes(filter, k) ==
    filter = NoFilter \/ (filter.property = "object" /\ ObjectType(k) = filter.value)

RECURSIVE Matching(_, _, _, _)
\* The objects k..CorpusSize that match the query and pass the filter, in order.
Matching(query, filter, r, k) ==
    IF k > CorpusSize THEN <<>>
    ELSE (IF Matches(query, k) /\ Passes(filter, k) THEN <<Doc(k, r)>> ELSE <<>>)
         \o Matching(query, filter, r, k + 1)

\* POST /v1/search: the first page of the matches, page_size long at most.
SearchResponse(req, r) ==
    LET all == Matching(req.query, req.filter, r, 1)
        n == Min(req.page_size, Len(all))
    IN  [object |-> "list", results |-> SubSeq(all, 1, n),
         has_more |-> Len(all) > n,
         next_cursor |-> IF Len(all) > n THEN all[n + 1].id ELSE undefined]

\* GET /v1/pages/{page_id}.
RetrieveResponse(req, r) ==
    LET found == {k \in 1..CorpusSize :
                    ToString(k) = req.page_id /\ ObjectType(k) = "page"}
    IN  IF req.page_id = undefined
        THEN [ok |-> FALSE, error |-> ValidationError, request |-> req]
        ELSE IF found = {}
        THEN [ok |-> FALSE, error |-> NotFound(req.page_id), request |-> req]
        ELSE [ok |-> TRUE, body |-> Doc(CHOOSE k \in found : TRUE, r), request |-> req]

\* What the store answers to a request in a given state of the store.
Answer(req, mode, r) ==
    IF mode = "down" THEN [ok |-> FALSE, error |-> NetworkFailure, request |-> req]
    ELSE IF mode = "unauthorized"
    THEN [ok |-> FALSE, error |-> Unauthorized, request |-> req]
    ELSE IF req.op = "search"
    THEN [ok |-> TRUE, body |-> SearchResponse(req, r), request |-> req]
    ELSE RetrieveResponse(req, r)

\* ------------------------------------------------------ tool catalog
Catalog ==
    << [name |-> "search_pages", description |-> "Search through Notion pages",
        inputSchema |-> [type |-> "object",
                         properties |-> <<[name |-> "query", type |-> "string",
                                           description |-> "Search query"]>>,
                         required |-> <<"query">>]],
       [name |-> "read_page", description |-> "Read a Notion page's content",
        inputSchema |-> [type |-> "object",
                         properties |-> <<[name |-> "pageId", type |-> "string",
                                           description |-> "ID of the page to read"]>>,
                         required |-> <<"pageId">>]] >>

\* ---------------------------------------------------- dispatch table
\* The own properties of the toolHandlers object literal.
OwnHandlers == {"search_pages", "read_page"}

\* Properties toolHandlers inherits from Object.prototype.
InheritedHandlers == {"toString", "constructor", "hasOwnProperty"}

\* toolHandlers[name]: an own property, else an inherited one, else undefined.
toolHandlers(name) ==
    IF name \in OwnHandlers THEN name
    ELSE IF name \in InheritedHandlers THEN "Object.prototype." \o name
    ELSE undefined

\* Mutant of search_request: the whole first hundred matches are asked for.
search_request_unbounded(query) ==
    [op |-> "search", query |-> query, filter |-> PageFilter, page_size |-> 100]

\* The request search_pages sends to the store.
search_request(query) ==
    [op |-> "search", query |-> query, filter |-> PageFilter, page_size |-> PageSize]

\* Mutant of search_pages_return: the first result is dropped.
search_pages_return_tail(response) == Tail(response.results)

\* What search_pages returns from the store's response.
search_pages_return(response) == response.results

\* The request read_page sends to the store.
read_request(pageId) == [op |-> "retrieve", page_id |-> pageId]

\* Mutant of read_page_return: a copy of the page as first seen is returned.
read_page_return_stale(page) == [page EXCEPT !.rev = 0]

\* What read_page returns from the store's response.
read_page_return(page) == page

\* handler(args) up to its first await: it returns, throws, or awaits a
\* store call.
search_pages(args) ==
    IF ~args.defined THEN [do |-> "throw", error |-> DestructureError]
    ELSE [do |-> "await", call |-> search_request(args.query)]

read_page(args) ==
    IF ~args.defined THEN [do |-> "throw", error |-> DestructureError]
    ELSE [do |-> "await", call |-> read_request(args.pageId)]

\* The inherited functions, called with this = undefined.
InheritedCall(handler, args) ==
    IF handler = "Object.prototype.toString"
    THEN [do |-> "return", value |-> "[object Undefined]"]
    ELSE IF handler = "Object.prototype.constructor"
    THEN [do |-> "return", value |-> IF args.defined THEN args
                                     ELSE ArgsObject(undefined, undefined)]
    ELSE [do |-> "throw", error |-> NotCallableThis]

HandlerStart(handler, args) ==
    IF handler = "search_pages" THEN search_pages(args)
    ELSE IF handler = "read_page" THEN read_page(args)
    ELSE InheritedCall(handler, args)

\* handler(args) after its await.
HandlerResume(handler, answer) ==
    IF ~answer.ok THEN [do |-> "throw", error |-> answer.error]
    ELSE IF handler = "search_pages"
    THEN [do |-> "return", value |-> search_pages_return(answer.body)]
    ELSE [do |-> "return", value |-> read_page_return(answer.body)]

\* Mutant of Catch: the error is wrapped in a new one.
CatchWrapped(name, error) ==
    [log |-> <<[tool |-> name, error |-> error]>>,
     rethrown |-> ErrorOf("Error", "Tool execution failed: ", name)]

\* The catch block of the call-tool handler: what it logs and rethrows.
Catch(name, error) ==
    [log |-> <<[tool |-> name, error |-> error]>>, rethrown |-> error]

Pending == [kind |-> "pending"]

\* -------------------------------------------------------- HTTP status
\* const PORT = process.env.PORT || 3000: an unset or empty PORT is falsy.
PortOf(envPORT) ==
    IF envPORT = undefined \/ envPORT = ""
    THEN [type |-> "number", text |-> ToString(DefaultPort)]
    ELSE [type |-> "string", text |-> envPORT]

NoPort == [type |-> undefined, text |-> undefined]

\* Mutant of StatusResponse: the default port is reported.
StatusResponseDefaultPort(PORT) ==
    [status |-> 200,
     body |-> [status |-> "Notion MCP Server is running", port |-> PortOf(undefined)]]

\* res.json(...) of the status route: Express answers 200.
StatusResponse(PORT) ==
    [status |-> 200,
     body |-> [status |-> "Notion MCP Server is running", port |-> PORT]]

\* Mutant of ListToolsResult: only the first descriptor is returned.
ListToolsFirst(defs) == [tools |-> SubSeq(defs, 1, 1)]

\* What the list-tools handler returns.
ListToolsResult(defs) == [tools |-> defs]

\* ------------------------------------------------------------- state
InitBuild(b) ==
    /\ build = b
    /\ port = NoPort
    /\ listening = FALSE
    /\ http = <<>>
    /\ TOOL_DEFINITIONS = Catalog
    /\ listed = <<>>
    /\ pc = [i \in Calls |-> "idle"]
    /\ request = [i \in Calls |-> [name |-> undefined, arguments |-> NoArgs]]
    /\ storeCalls = [i \in Calls |-> <<>>]
    /\ storeAnswers = [i \in Calls |-> <<>>]
    /\ errorLog = [i \in Calls |-> <<>>]
    /\ outcome = [i \in Calls |-> Pending]
    /\ storeMode = "up"
    /\ rev = 0

\* The module of part_000 is loaded.
Init == InitBuild("part_000")

\* The module of src/index.ts is loaded.
InitIndex == InitBuild("src/index.ts")

\* The module reads PORT and starts the HTTP listener.
Listen(envPORT) ==
    /\ ~listening
    /\ port' = PortOf(envPORT)
    /\ listening' = TRUE
    /\ UNCHANGED <<build, http, TOOL_DEFINITIONS, listed, serverVars, storeVars>>

\* GET /api/status.  The last response is kept.
GetStatus ==
    /\ listening
    /\ http' = <<StatusResponse(port)>>
    /\ UNCHANGED <<build, port, listening, TOOL_DEFINITIONS, listed, serverVars, storeVars>>

\* The list-tools handler.  The last result is kept.
ListTools ==
    /\ listed' = <<ListToolsResult(TOOL_DEFINITIONS)>>
    /\ UNCHANGED <<build, httpVars, TOOL_DEFINITIONS, serverVars, storeVars>>

\* The handler's exit on a step of the tool implementation: a return leaves
\* the try block, a throw goes through the catch block.
Settle(i, name, step) ==
    IF step.do = "return"
    THEN /\ outcome' = [outcome EXCEPT ![i] = [kind |-> "value", value |-> step.value]]
         /\ UNCHANGED errorLog
    ELSE /\ outcome' = [outcome EXCEPT
                          ![i] = [kind |-> "error", error |-> Catch(name, step.error).rethrown]]
         /\ errorLog' = [errorLog EXCEPT ![i] = @ \o Catch(name, step.error).log]

\* The try block up to the handler's first await or its end.  src/index.ts
\* declares no toolHandlers: evaluating the name throws.
Dispatch(b, name, args) ==
    IF b = "src/index.ts" THEN [do |-> "throw", error |-> ReferenceError]
    ELSE IF toolHandlers(name) = undefined
    THEN [do |-> "throw", error |-> UnknownToolError(name)]
    ELSE HandlerStart(toolHandlers(name), args)

\* The call-tool handler, from the request to its first await or its end.
CallTool(i, name, args) ==
    /\ pc[i] = "idle"
    /\ request' = [request EXCEPT ![i] = [name |-> name, arguments |-> args]]
    /\ LET step == Dispatch(build, name, args)
       IN  IF step.do = "await"
           THEN /\ pc' = [pc EXCEPT ![i] = "awaiting"]
                /\ storeCalls' = [storeCalls EXCEPT ![i] = Append(@, step.call)]
                /\ UNCHANGED <<outcome, errorLog>>
           ELSE /\ pc' = [pc EXCEPT ![i] = "done"]
                /\ Settle(i, name, step)
                /\ UNCHANGED storeCalls
    /\ UNCHANGED <<build, httpVars, TOOL_DEFINITIONS, listed, storeAnswers, storeVars>>

\* The invocation whose store call invocation i is suspended on: its own.
Awaited(i) == i

\* Mutant of CanResume: store calls are answered one at a time, in order.
CanResumeInOrder(i) ==
    pc[i] = "awaiting" /\ \A j \in Calls : j < i => pc[j] # "awaiting"

\* An invocation resumes as soon as the store has answered its call.
CanResume(i) == pc[i] = "awaiting"

\* The store answers the call invocation i awaits, and the handler runs on
\* from its await to its end.
StoreRespond(i) ==
    /\ CanResume(i)
    /\ LET answer == Answer(storeCalls[Awaited(i)][1], storeMode, rev)
           step == HandlerResume(toolHandlers(request[i].name), answer)
       IN  /\ storeAnswers' = [storeAnswers EXCEPT ![i] = Append(@, answer)]
           /\ Settle(i, request[i].name, step)
    /\ pc' = [pc EXCEPT ![i] = "done"]
    /\ UNCHANGED <<build, httpVars, TOOL_DEFINITIONS, listed, request, storeCalls, storeVars>>

\* The store becomes reachable, unreachable, or rejects the credential.
StoreModeChange(m) ==
    /\ m # storeMode
    /\ storeMode' = m
    /\ UNCHANGED <<build, httpVars, TOOL_DEFINITIONS, listed, serverVars, rev>>

\* Someone edits page "1" in the store.
EditPage ==
    /\ rev < MaxRev
    /\ rev' = rev + 1
    /\ UNCHANGED <<build, httpVars, TOOL_DEFINITIONS, listed, serverVars, storeMode>>

\* ---------------------------------------------------- specifications
\* The tool invocations and the store (part_000).
Next ==
    \/ \E i \in Calls, r \in Requests : CallTool(i, r[1], r[2])
    \/ \E i \in Calls : StoreRespond(i)
    \/ \E m \in {"up", "down", "unauthorized"} : StoreModeChange(m)
    \/ EditPage

Spec == Init /\ [][Next]_vars

\* The front end of part_000: the HTTP listener, the status route and the
\* two MCP handlers, with the store behind them.
NextFront ==
    \/ \E e \in EnvPorts : Listen(e)
    \/ GetStatus
    \/ ListTools
    \/ \E i \in Calls, r \in FrontRequests : CallTool(i, r[1], r[2])
    \/ \E i \in Calls : StoreRespond(i)
    \/ \E m \in {"up", "down", "unauthorized"} : StoreModeChange(m)

SpecFront == Init /\ [][NextFront]_vars

\* src/index.ts: no invocation reaches the store.
NextIndex ==
    \/ \E e \in EnvPorts : Listen(e)
    \/ GetStatus
    \/ ListTools
    \/ \E i \in Calls, r \in Requests : CallTool(i, r[1], r[2])

SpecIndex == InitIndex /\ [][NextIndex]_vars

\* ------------------------------------------------------------ claims
Started(i) == pc[i] # "idle"
Done(i) == pc[i] = "done"
Name(i) == request[i].name
Args(i) == request[i].arguments
Returned(i) == Done(i) /\ outcome[i].kind = "value"
Threw(i) == Done(i) /\ outcome[i].kind = "error"
\* The store answered invocation i's call, with a result or with an error.
Answered(i) == Len(storeAnswers[i]) = 1
AnsweredOk(i) == Answered(i) /\ storeAnswers[i][1].ok
AnsweredError(i) == Answered(i) /\ ~storeAnswers[i][1].ok

\* C1: a call-tool request whose name is not a registered tool fails with
\* the Unknown-tool error carrying that name, returns no value and makes
\* no store call, whatever its arguments.
C1_UnknownToolFails ==
    \A i \in Calls :
        (Started(i) /\ Name(i) \notin RegisteredNames) =>
            /\ Threw(i)
            /\ outcome[i].error = [class |-> "Error", code |-> "Unknown tool: ",
                                   detail |-> Name(i)]
            /\ storeCalls[i] = <<>>

\* The names a list-tools result lists.
ListedNames(result) == {result.tools[k].name : k \in DOMAIN result.tools}

\* The names the call-tool handler resolves to an implementation.
DispatchableNames ==
    {n \in ToolNames :
        LET step == Dispatch(build, n, EmptyArgs)
        IN  ~(step.do = "throw" /\ step.error.class \in {"Error", "ReferenceError"})}

\* C2: the names a list-tools result lists are the names the dispatch
\* resolves to an implementation, each listed once; no call of a listed
\* name fails at the lookup and no unlisted name runs an implementation.
C2_CatalogDispatchConsistent ==
    /\ listed # <<>> =>
           /\ ListedNames(listed[1]) = DispatchableNames
           /\ \A k, l \in DOMAIN listed[1].tools :
                  listed[1].tools[k].name = listed[1].tools[l].name => k = l
    /\ \A i \in Calls :
           (Threw(i) /\ outcome[i].error.class \in {"Error", "ReferenceError"})
               <=> (Done(i) /\ Name(i) \notin {"search_pages", "read_page"})

\* C3: search_pages with {query: q} issues exactly one store search for q
\* with the page filter and page size 10, and on success returns the
\* store's result sequence as it is.
C3_SearchReturnsStoreResults ==
    \A i \in Calls :
        (Started(i) /\ Name(i) = "search_pages" /\ Args(i).defined
                    /\ Args(i).query # undefined) =>
            /\ storeCalls[i] = << [op |-> "search", query |-> Args(i).query,
                                   filter |-> [property |-> "object", value |-> "page"],
                                   page_size |-> 10] >>
            /\ Answered(i) => storeAnswers[i][1].request = storeCalls[i][1]
            /\ (Done(i) /\ AnsweredOk(i)) =>
                   /\ Returned(i)
                   /\ outcome[i].value = storeAnswers[i][1].body.results

C3_Witness ==
    \E i \in Calls :
        /\ Name(i) = "search_pages" /\ Args(i).query = "roadmap"
        /\ Returned(i) /\ AnsweredOk(i)
        /\ Len(outcome[i].value) > 1
        /\ outcome[i].value[1].id = "1" /\ outcome[i].value[2].id = "3"

ReadOf(i, p) ==
    Started(i) /\ Name(i) = "read_page" /\ Args(i).defined /\ Args(i).pageId = p

\* C4: read_page with {pageId: p} issues exactly one store retrieve for p
\* and on success returns the document the store returned; two such calls
\* for the same p return equal documents when the store returned the same
\* content to both.
C4_ReadReturnsStoreDocument ==
    /\ \A i \in Calls : \A p \in {"1", "missing"} :
           ReadOf(i, p) =>
               /\ storeCalls[i] = << [op |-> "retrieve", page_id |-> p] >>
               /\ Answered(i) => storeAnswers[i][1].request = storeCalls[i][1]
               /\ (Done(i) /\ AnsweredOk(i)) =>
                      /\ Returned(i)
                      /\ outcome[i].value = storeAnswers[i][1].body
                      /\ outcome[i].value.id = p
    /\ \A i, j \in Calls : \A p \in {"1", "missing"} :
           (/\ ReadOf(i, p) /\ ReadOf(j, p)
            /\ Done(i) /\ Done(j) /\ AnsweredOk(i) /\ AnsweredOk(j)
            /\ storeAnswers[i][1].body = storeAnswers[j][1].body) =>
               (Returned(i) /\ Returned(j) /\ outcome[i].value = outcome[j].value)

C4_Witness ==
    \E i, j \in Calls :
        /\ i # j /\ ReadOf(i, "1") /\ ReadOf(j, "1")
        /\ Returned(i) /\ Returned(j)
        /\ outcome[i].value.rev = 1 /\ outcome[j].value.rev = 1

\* The required argument of a registered tool is missing.
MissingRequired(i) ==
    /\ Name(i) \in RegisteredNames
    /\ \/ ~Args(i).defined
       \/ Name(i) = "search_pages" /\ Args(i).query = undefined
       \/ Name(i) = "read_page" /\ Args(i).pageId = undefined

\* C5: a registered tool called without its required argument fails with
\* an InvalidArguments error and makes no store call.
C5_MissingArgumentRejected ==
    \A i \in Calls :
        (Started(i) /\ MissingRequired(i)) =>
            /\ Threw(i)
            /\ outcome[i].error.class = "InvalidArguments"
            /\ storeCalls[i] = <<>>

\* C6: when the store call of an invocation fails, the handler logs the
\* failure once with the tool name and fails with that same error; it
\* made one store call, got one answer and returns no value.
C6_StoreFailurePropagates ==
    \A i \in Calls :
        (Done(i) /\ AnsweredError(i)) =>
            /\ errorLog[i] = << [tool |-> Name(i), error |-> storeAnswers[i][1].error] >>
            /\ Threw(i)
            /\ outcome[i].error = storeAnswers[i][1].error
            /\ Len(storeCalls[i]) = 1

C6_Witness ==
    \E i, j \in Calls :
        /\ Threw(i) /\ AnsweredError(i) /\ outcome[i].error.code = "object_not_found"
        /\ Threw(j) /\ AnsweredError(j) /\ outcome[j].error.code \in {"network", "unauthorized"}

\* C7: once the listener is started a GET /api/status can always be
\* handled; its answer is 200 with the configured port, and handling it
\* makes no store call and changes nothing but the response sent.
C7_StatusAlwaysOk ==
    /\ [](listening => ENABLED GetStatus)
    /\ [](http # <<>> => (http[1].status = 200 /\ http[1].body.port = port))
    /\ [][http' # http =>
            (listening /\ UNCHANGED <<port, listening, TOOL_DEFINITIONS, listed,
                                      serverVars, storeVars>>)]_vars

C7_Witness ==
    /\ http # <<>> /\ http[1].body.port.text = "8080"
    /\ storeMode = "down"
    /\ \E i, j \in Calls : pc[i] = "awaiting" /\ Threw(j) /\ AnsweredError(j)

\* C8: the catalog is never changed, and every list-tools result is the
\* whole catalog: search_pages then read_page, with their descriptions and
\* input schemas.
C8_CatalogStable ==
    /\ TOOL_DEFINITIONS = Catalog
    /\ listed # <<>> =>
           /\ listed[1].tools = Catalog
           /\ [k \in 1..Len(listed[1].tools) |-> listed[1].tools[k].name]
                  = <<"search_pages", "read_page">>
           /\ listed[1].tools[1].inputSchema.required = <<"query">>
           /\ listed[1].tools[2].inputSchema.required = <<"pageId">>

C8_Witness ==
    /\ listed # <<>>
    /\ \E i, j \in Calls : Threw(i) /\ Returned(j)

\* What an invocation of a registered tool ends with, given the answer of
\* the store to its call.
OwnOutcome(i) ==
    LET a == storeAnswers[i][1]
    IN  IF ~a.ok THEN outcome[i].kind = "error" /\ outcome[i].error = a.error
        ELSE /\ outcome[i].kind = "value"
             /\ IF Name(i) = "search_pages" THEN outcome[i].value = a.body.results
                ELSE outcome[i].value = a.body

\* C9: each invocation that called the store ends with the outcome of the
\* store's answer to its own call, made from its own arguments; an
\* invocation suspended on the store can resume, and an idle one can
\* start, whatever the other invocations are waiting for.
C9_InvocationsIndependent ==
    \A i \in Calls :
        /\ (Started(i) /\ storeCalls[i] # <<>>) =>
               storeCalls[i][1] =
                   IF Name(i) = "search_pages"
                   THEN [op |-> "search", query |-> Args(i).query,
                         filter |-> PageFilter, page_size |-> PageSize]
                   ELSE [op |-> "retrieve", page_id |-> Args(i).pageId]
        /\ (Done(i) /\ storeCalls[i] # <<>>) =>
               /\ Answered(i)
               /\ storeAnswers[i][1].request = storeCalls[i][1]
               /\ OwnOutcome(i)
        /\ pc[i] = "awaiting" => ENABLED StoreRespond(i)
        /\ pc[i] = "idle" => ENABLED CallTool(i, "read_page", ArgsObject(undefined, "1"))

C9_Witness ==
    \E i, j \in Calls :
        /\ pc[i] = "awaiting" /\ Name(i) = "search_pages"
        /\ Returned(j) /\ Name(j) = "read_page" /\ AnsweredOk(j)

====
